---------------------------- MODULE Spec2Model ----------------------------
(***************************************************************************)
(* Model of number_generator.py: random_int, random_float, generate_many,  *)
(* _print_examples and the command-line entry point.                       *)
(*                                                                         *)
(* Numbers.  A Python int is an exact integer.  A Python float is modelled *)
(* as a binary floating-point number with Precision significant bits       *)
(* (binary64 has 53), largest exponent EMax (binary64: 1023) and round to  *)
(* nearest, ties to even.  A finite float is held as an integer count n of *)
(* quanta, one quantum being 1/Unit; every arithmetic result is rounded to *)
(* the format, and overflows to an infinity, as the hardware does.         *)
(*                                                                         *)
(* Entropy.  Every call of random.random() and of random.randint() takes   *)
(* an arbitrary outcome: any multiple of 2^-UBits in [0.0, 1.0) (binary64: *)
(* UBits = 53) and any integer of the closed range.                        *)
(*                                                                         *)
(* Output.  Standard output is written and gone: the state holds the line  *)
(* the last step wrote and the number of lines written so far.             *)
(***************************************************************************)
EXTENDS Integers, Sequences, FiniteSets, TLC

(* ------------------------------ bounds -------------------------------- *)
\* significant bits of a float
Precision == 4
\* largest binary exponent of a finite float
EMax == 4
\* the smallest binary exponent of a normal float is -EMin (binary64: 1022)
EMin == 2
\* bits of one raw draw: random.random() returns a multiple of 2^-UBits
UBits == 2
\* largest count passed to generate_many by a library or command-line caller
MaxCount == 2
\* library callers pass float bounds k/2 with |k| <= MaxHalf
MaxHalf == 2
\* command-line callers pass --min/--max k/2 with 0 <= k <= MaxCliHalf
MaxCliHalf == 1
\* library callers pass random_int bounds in -MaxInt..MaxInt
MaxInt == 1

(* --------------------------- float format ----------------------------- *)
\* the quantum is the smallest subnormal, 2^-FracBits (binary64: 2^-1074)
FracBits == EMin + Precision - 1
Unit == 2^FracBits
\* one unit in the last place of 1.0, in quanta
Ulp1 == Unit \div 2^(Precision - 1)
MaxFinite == ((2^Precision - 1) * 2^(EMax + 1) * Unit) \div 2^Precision

PyInt(n) == [type |-> "int", cls |-> "fin", n |-> n]
Fin(n) == [type |-> "float", cls |-> "fin", n |-> n]
Inf(s) == [type |-> "float", cls |-> "inf", n |-> s]
NaN == [type |-> "float", cls |-> "nan", n |-> 0]
NoValue == [type |-> "none", cls |-> "fin", n |-> 0]

Abs(n) == IF n < 0 THEN -n ELSE n
Sign(n) == IF n < 0 THEN -1 ELSE 1

RECURSIVE BitLen(_)
BitLen(n) == IF n = 0 THEN 0 ELSE 1 + BitLen(n \div 2)

\* distance between neighbouring floats around a magnitude of q quanta
Spacing(q) == IF BitLen(q) > Precision THEN 2^(BitLen(q) - Precision) ELSE 1

\* num/den quanta (num >= 0, den > 0) rounded to the nearest float, ties to even
RoundNearestEven(num, den) ==
    LET s == Spacing(num \div den)
        k == num \div (den * s)
        r == num - k * den * s
        up == 2 * r > den * s \/ (2 * r = den * s /\ k % 2 = 1)
    IN  (IF up THEN k + 1 ELSE k) * s

\* the float nearest to the exact value num/den quanta (den > 0)
FRound(num, den) ==
    LET m == RoundNearestEven(Abs(num), den)
    IN  IF m > MaxFinite THEN Inf(Sign(num)) ELSE Fin(Sign(num) * m)

\* x - y for finite floats
FSub(x, y) == FRound(x.n - y.n, 1)

\* x * y, y finite
FMul(x, y) ==
    IF x.cls = "nan" THEN NaN
    ELSE IF x.cls = "inf"
         THEN (IF y.n = 0 THEN NaN ELSE Inf(x.n * Sign(y.n)))
         ELSE FRound(x.n * y.n, Unit)

\* x + y, x finite
FAdd(x, y) ==
    IF y.cls = "nan" THEN NaN
    ELSE IF y.cls = "inf" THEN y
         ELSE FRound(x.n + y.n, 1)

(* ----------------------- conversions, comparison ----------------------- *)
\* the exact value of a finite number, in quanta
Quanta(x) == IF x.type = "int" THEN x.n * Unit ELSE x.n

\* Python's x > y on finite numbers (exact, also between int and float)
Gt(x, y) == Quanta(x) > Quanta(y)

IntCastFloor(x) ==
    IF x.type = "int" THEN x.n
    ELSE IF x.n >= 0 THEN x.n \div Unit ELSE -(((-x.n) + Unit - 1) \div Unit)

\* int(x): truncation toward zero
IntCast(x) ==
    IF x.type = "int" THEN x.n
    ELSE IF x.n >= 0 THEN x.n \div Unit ELSE -((-x.n) \div Unit)

\* float(x) raises OverflowError: an int that rounds past the largest float
FloatCastRaises(x) == x.type = "int" /\ FRound(x.n * Unit, 1).cls = "inf"

\* float(x), when it does not raise
FloatCast(x) == IF x.type = "int" THEN FRound(x.n * Unit, 1) ELSE x

(* ------------------------- the random module -------------------------- *)
\* the raw draws of random.random()
Raw == 0 .. (2^UBits - 1)

\* random.random() on raw draw r: a float in [0.0, 1.0)
Random(r) == Fin(r * (Unit \div 2^UBits))

RandIntPastEnd(a, b) == a .. (b + 1)

\* the integers random.randint(a, b) can return, for a <= b
RandInt(a, b) == a .. b

\* random.randint(a, b) raises ValueError when a > b
EmptyRange(a, b) == a > b

(* ------------------------ number_generator.py ------------------------- *)
Kinds == {"int", "float"}

MsgCount == "count must be a positive integer"
MsgRange == "min_value must be <= max_value"
MsgKind == "kind must be either 'int' or 'float'"
MsgEmptyRange == "empty range for randrange()"
MsgOverflow == "int too large to convert to float"
MsgChoice == "argument --kind: invalid choice"
InvalidArgument == {MsgCount, MsgRange, MsgKind}

\* exit status of the interpreter after an uncaught exception
ExitUncaught == 1
\* exit status of argparse after a usage error
ExitUsage == 2

\* what random_int(min_value, max_value) can return, for min_value <= max_value
random_int(min_value, max_value) ==
    {PyInt(v) : v \in RandInt(min_value, max_value)}

random_float_unshifted(min_value, max_value, r) ==
    FAdd(min_value, FMul(max_value, Random(r)))

\* random_float(min_value, max_value) when random.random() takes raw draw r
random_float(min_value, max_value, r) ==
    FAdd(min_value, FMul(FSub(max_value, min_value), Random(r)))

\* the record of one call of a single-value generator: v is what it returned
IntCall(a, b, v) ==
    [fn |-> "random_int", lo |-> PyInt(a), hi |-> PyInt(b), ret |-> v]
FloatCall(a, b, r) ==
    [fn |-> "random_float", lo |-> a, hi |-> b, raw |-> r,
     ret |-> random_float(a, b, r)]

ValidationErrorRangeFirst(count, min_value, max_value) ==
    IF Gt(min_value, max_value) THEN MsgRange
    ELSE IF count <= 0 THEN MsgCount
    ELSE ""

\* the checks generate_many makes before it creates the result list
ValidationError(count, min_value, max_value) ==
    IF count <= 0 THEN MsgCount
    ELSE IF Gt(min_value, max_value) THEN MsgRange
    ELSE ""

IsFloatBranchAnyOther(kind) == kind # "int"

\* the elif of generate_many
IsFloatBranch(kind) == kind = "float"

\* the else of generate_many
KindRejected(kind) == kind \notin Kinds

PushFront(results, v) == <<v>> \o results

\* results.append(v)
Push(results, v) == Append(results, v)

\* for _ in range(count) has run count times
LoopDone(results, count) == Len(results) = count

\* one line of standard output: the text before the numbers and the numbers
Line(label, vals) == [label |-> label, vals |-> vals]
\* no line
NoLine == [label |-> "none", vals |-> <<>>]

KindChoiceOkAny(kind) == TRUE

\* argparse: choices=["int", "float"]
KindChoiceOk(kind) == kind \in Kinds

RunsExamplesValidated(a) == a.examples /\ a.count > 0

\* if args.examples
RunsExamples(a) == a.examples

(* ------------------------------ inputs -------------------------------- *)
\* bounds are finite numbers, floats or ints
Half == Unit \div 2
\* bounds on a grid of halves, and the int 0
GridArgs == {Fin(k * Half) : k \in -MaxHalf .. MaxHalf} \cup {PyInt(0)}
\* float bounds at the edges of the format: the neighbour of 1.0, the
\* smallest subnormal, the largest finite floats
EdgeFloatArgs ==
    {Fin(0), Fin(Unit), Fin(Unit + Ulp1), Fin(1), Fin(MaxFinite), Fin(-MaxFinite)}
\* int bounds: one that float() rounds, one that float() cannot convert
BigIntArgs == {PyInt(2^Precision + 1), PyInt(2^(EMax + 1))}
FloatArgs == {x \in GridArgs : x.type = "float"} \cup EdgeFloatArgs
CliArgs == {Fin(k * Half) : k \in 0 .. MaxCliHalf}
IntArgs == -MaxInt .. MaxInt
KindArgs == Kinds \cup {"string"}
CountArgs == -1 .. MaxCount
CliCountArgs == 0 .. MaxCount

NoArgs == [kind |-> "", count |-> 0, min |-> NoValue, max |-> NoValue,
           examples |-> FALSE]
NoFrame == [kind |-> "", count |-> 0, min |-> NoValue, max |-> NoValue,
            imin |-> 0, imax |-> 0, caller |-> "none"]

(* ------------------------------- state -------------------------------- *)
VARIABLES
    op,        \* the entry point of this run
    pc,        \* the position of control
    argv,      \* the parsed command-line flags
    gm,        \* the frame of the latest generate_many call
    results,   \* the list generate_many builds
    calls,     \* the calls of random_int and random_float that the running
               \* statement of the caller has made
    retval,    \* what a direct call of random_int or random_float returned
    err,       \* the message of the exception raised, "" if none
    out,       \* the line the last step wrote to standard output, or NoLine
    printed,   \* the number of lines written to standard output
    stderr,    \* the message on the error stream
    exitcode   \* the exit status, -1 while the process runs

vars == <<op, pc, argv, gm, results, calls, retval, err, out, printed,
          stderr, exitcode>>

Init ==
    /\ op = "none"
    /\ pc = "idle"
    /\ argv = NoArgs
    /\ gm = NoFrame
    /\ results = <<>>
    /\ calls = <<>>
    /\ retval = NoValue
    /\ err = ""
    /\ out = NoLine
    /\ printed = 0
    /\ stderr = ""
    /\ exitcode = -1

\* a step that writes nothing to standard output
Silent == out' = NoLine /\ UNCHANGED printed

\* print(label, vals...)
PrintLine(label, vals) == out' = Line(label, vals) /\ printed' = printed + 1

(* ------------------------------ actions ------------------------------- *)
\* a caller runs random_int(a, b)
CallRandomInt(a, b) ==
    /\ pc = "idle"
    /\ op' = "random_int"
    /\ IF EmptyRange(a, b)
       THEN /\ err' = MsgEmptyRange
            /\ pc' = "raised"
            /\ UNCHANGED <<calls, retval>>
       ELSE \E v \in random_int(a, b) :
            /\ calls' = <<IntCall(a, b, v)>>
            /\ retval' = v
            /\ err' = ""
            /\ pc' = "done"
    /\ Silent
    /\ UNCHANGED <<argv, gm, results, stderr, exitcode>>

\* a caller runs random_float(a, b)
CallRandomFloat(a, b) ==
    /\ pc = "idle"
    /\ op' = "random_float"
    /\ \E r \in Raw :
        /\ calls' = <<FloatCall(a, b, r)>>
        /\ retval' = random_float(a, b, r)
    /\ pc' = "done"
    /\ Silent
    /\ UNCHANGED <<argv, gm, results, err, stderr, exitcode>>

\* generate_many up to the if on kind: the two checks, the empty list and,
\* on the int branch, the casts of the bounds
EnterGenerateMany(caller, kind, count, min_value, max_value) ==
    LET e == ValidationError(count, min_value, max_value)
        cast == e = "" /\ kind = "int"
    IN  /\ gm' = [kind |-> kind, count |-> count,
                  min |-> min_value, max |-> max_value,
                  imin |-> IF cast THEN IntCast(min_value) ELSE 0,
                  imax |-> IF cast THEN IntCast(max_value) ELSE 0,
                  caller |-> caller]
        /\ results' = <<>>
        /\ calls' = <<>>
        /\ err' = e
        /\ pc' = IF e = "" THEN "gm_body" ELSE "raised"
        /\ Silent

\* a caller runs generate_many(kind, count, lo, hi)
CallGenerateMany(kind, count, lo, hi) ==
    /\ pc = "idle"
    /\ op' = "generate_many"
    /\ EnterGenerateMany("lib", kind, count, lo, hi)
    /\ UNCHANGED <<argv, retval, stderr, exitcode>>

\* one iteration of the int loop
GMIterInt ==
    /\ pc = "gm_body"
    /\ gm.kind = "int"
    /\ ~LoopDone(results, gm.count)
    /\ IF EmptyRange(gm.imin, gm.imax)
       THEN /\ err' = MsgEmptyRange
            /\ pc' = "raised"
            /\ UNCHANGED <<calls, results>>
       ELSE \E v \in random_int(gm.imin, gm.imax) :
            /\ calls' = Append(calls, IntCall(gm.imin, gm.imax, v))
            /\ results' = Push(results, v)
            /\ UNCHANGED <<err, pc>>
    /\ Silent
    /\ UNCHANGED <<op, argv, gm, retval, stderr, exitcode>>

\* one iteration of the float loop: the casts of the bounds, then the draw
GMIterFloat ==
    /\ pc = "gm_body"
    /\ gm.kind # "int"
    /\ IsFloatBranch(gm.kind)
    /\ ~LoopDone(results, gm.count)
    /\ IF FloatCastRaises(gm.min) \/ FloatCastRaises(gm.max)
       THEN /\ err' = MsgOverflow
            /\ pc' = "raised"
            /\ UNCHANGED <<calls, results>>
       ELSE \E r \in Raw :
            LET a == FloatCast(gm.min)
                b == FloatCast(gm.max)
            IN  /\ calls' = Append(calls, FloatCall(a, b, r))
                /\ results' = Push(results, random_float(a, b, r))
                /\ UNCHANGED <<err, pc>>
    /\ Silent
    /\ UNCHANGED <<op, argv, gm, retval, stderr, exitcode>>

\* the else branch: the kind is neither "int" nor "float"
GMRaiseKind ==
    /\ pc = "gm_body"
    /\ KindRejected(gm.kind)
    /\ err' = MsgKind
    /\ pc' = "raised"
    /\ Silent
    /\ UNCHANGED <<op, argv, gm, results, calls, retval, stderr, exitcode>>

\* return results, to a library caller or to the script
GMReturn ==
    /\ pc = "gm_body"
    /\ gm.caller \in {"lib", "main"}
    /\ ~KindRejected(gm.kind)
    /\ LoopDone(results, gm.count)
    /\ pc' = IF gm.caller = "lib" THEN "done" ELSE "print"
    /\ Silent
    /\ UNCHANGED <<op, argv, gm, results, calls, retval, err, stderr, exitcode>>

\* the command line: parser.parse_args()
ParseArgs(a) ==
    /\ pc = "idle"
    /\ op' = "main"
    /\ argv' = a
    /\ IF KindChoiceOk(a.kind)
       THEN /\ pc' = "dispatch"
            /\ UNCHANGED <<stderr, exitcode>>
       ELSE /\ stderr' = MsgChoice
            /\ exitcode' = ExitUsage
            /\ pc' = "done"
    /\ Silent
    /\ UNCHANGED <<gm, results, calls, retval, err>>

\* numbers = generate_many(args.kind, args.count, args.min, args.max)
MainGenerate ==
    /\ pc = "dispatch"
    /\ ~RunsExamples(argv)
    /\ EnterGenerateMany("main", argv.kind, argv.count, argv.min, argv.max)
    /\ UNCHANGED <<op, argv, retval, stderr, exitcode>>

\* for n in numbers: print(n)
PrintNumber ==
    /\ pc = "print"
    /\ printed < Len(results)
    /\ PrintLine("", <<results[printed + 1]>>)
    /\ UNCHANGED <<op, pc, argv, gm, results, calls, retval, err, stderr, exitcode>>

\* the script ends
ExitOk ==
    /\ \/ pc = "print" /\ printed = Len(results)
       \/ pc = "exit"
    /\ exitcode' = 0
    /\ pc' = "done"
    /\ Silent
    /\ UNCHANGED <<op, argv, gm, results, calls, retval, err, stderr>>

\* the exception of generate_many reaches the top level of the script
Uncaught ==
    /\ op = "main"
    /\ pc = "raised"
    /\ stderr' = err
    /\ exitcode' = ExitUncaught
    /\ pc' = "done"
    /\ Silent
    /\ UNCHANGED <<op, argv, gm, results, calls, retval, err>>

\* _print_examples: the heading
ExHeader ==
    /\ pc = "dispatch"
    /\ RunsExamples(argv)
    /\ PrintLine("Examples: \n", <<>>)
    /\ pc' = "ex1"
    /\ UNCHANGED <<op, argv, gm, results, calls, retval, err, stderr, exitcode>>

\* print("Single int [1, 10]:", random_int(1, 10))
ExSingleInt ==
    /\ pc = "ex1"
    /\ \E v \in random_int(1, 10) :
        /\ calls' = <<IntCall(1, 10, v)>>
        /\ PrintLine("Single int [1, 10]:", <<v>>)
    /\ pc' = "ex2"
    /\ UNCHANGED <<op, argv, gm, results, retval, err, stderr, exitcode>>

\* print("Single float [0.0, 1.0]:", random_float(0.0, 1.0))
ExSingleFloat ==
    /\ pc = "ex2"
    /\ \E r \in Raw :
        /\ calls' = <<FloatCall(Fin(0), Fin(Unit), r)>>
        /\ PrintLine("Single float [0.0, 1.0]:",
                     <<random_float(Fin(0), Fin(Unit), r)>>)
    /\ pc' = "ex3"
    /\ UNCHANGED <<op, argv, gm, results, retval, err, stderr, exitcode>>

\* generate_many("int", 5, 10, 20) is entered
ExManyInts ==
    /\ pc = "ex3"
    /\ EnterGenerateMany("ex3", "int", 5, PyInt(10), PyInt(20))
    /\ UNCHANGED <<op, argv, retval, stderr, exitcode>>

\* generate_many returns and print("Five ints [10, 20]:", ...) writes the list
ExPrintInts ==
    /\ pc = "gm_body"
    /\ gm.caller = "ex3"
    /\ LoopDone(results, gm.count)
    /\ PrintLine("Five ints [10, 20]:", results)
    /\ pc' = "ex4"
    /\ UNCHANGED <<op, argv, gm, results, calls, retval, err, stderr, exitcode>>

\* generate_many("float", 5, 1.5, 2.5) is entered
ExManyFloats ==
    /\ pc = "ex4"
    /\ EnterGenerateMany("ex4", "float", 5, Fin(3 * Half), Fin(5 * Half))
    /\ UNCHANGED <<op, argv, retval, stderr, exitcode>>

\* generate_many returns and print("Five floats [1.5, 2.5]:", ...) writes the list
ExPrintFloats ==
    /\ pc = "gm_body"
    /\ gm.caller = "ex4"
    /\ LoopDone(results, gm.count)
    /\ PrintLine("Five floats [1.5, 2.5]:", results)
    /\ pc' = "exit"
    /\ UNCHANGED <<op, argv, gm, results, calls, retval, err, stderr, exitcode>>

\* the flags the examples are run with: flags generate_many would reject
\* (count 0, min > max, any kind) and flags it would accept
ExampleFlags(a) ==
    \/ a.count = 0 /\ a.min = Fin(Half) /\ a.max = Fin(0) /\ a.kind # "float"
    \/ a.count = MaxCount /\ a.min = Fin(0) /\ a.max = Fin(0) /\ a.kind = "float"

ArgvSet ==
    {a \in [kind : KindArgs, count : CliCountArgs, min : CliArgs,
            max : CliArgs, examples : BOOLEAN] : a.examples => ExampleFlags(a)}

\* what a library caller or the shell can start, once per run
LibRandomInt == pc = "idle" /\ \E a, b \in IntArgs : CallRandomInt(a, b)
LibRandomFloat == pc = "idle" /\ \E a, b \in FloatArgs : CallRandomFloat(a, b)
LibGenerateMany ==
    /\ pc = "idle"
    /\ \/ \E kind \in KindArgs, count \in CountArgs, lo, hi \in GridArgs :
             CallGenerateMany(kind, count, lo, hi)
       \/ \E count \in CountArgs, lo, hi \in EdgeFloatArgs \cup BigIntArgs :
             CallGenerateMany("float", count, lo, hi)
CommandLine == pc = "idle" /\ \E a \in ArgvSet : ParseArgs(a)

Next ==
    \/ LibRandomInt
    \/ LibRandomFloat
    \/ LibGenerateMany
    \/ GMIterInt
    \/ GMIterFloat
    \/ GMRaiseKind
    \/ GMReturn
    \/ CommandLine
    \/ MainGenerate
    \/ PrintNumber
    \/ ExitOk
    \/ Uncaught
    \/ ExHeader
    \/ ExSingleInt
    \/ ExSingleFloat
    \/ ExManyInts
    \/ ExPrintInts
    \/ ExManyFloats
    \/ ExPrintFloats

Spec == Init /\ [][Next]_vars

(* ----------------------------- properties ----------------------------- *)
Indices(seq) == 1 .. Len(seq)

\* lo <= v <= hi, v a finite number
InRange(v, lo, hi) ==
    v.cls = "fin" /\ Quanta(lo) <= Quanta(v) /\ Quanta(v) <= Quanta(hi)

\* the integer part of x: the integer t of the same sign with |t| <= |x| < |t| + 1
TruncatedValue(x) ==
    LET q == Quanta(x)
        m == Abs(q) \div Unit
    IN  CHOOSE t \in -(m + 1) .. (m + 1) :
            /\ Abs(t) * Unit <= Abs(q)
            /\ Abs(q) < (Abs(t) + 1) * Unit
            /\ (t = 0 \/ Sign(t) = Sign(q))

IsWhole(x) == Quanta(x) % Unit = 0

\* generate_many has been called by a library or command-line caller
CalledByUser == gm.caller \in {"lib", "main"}

\* the arguments of the generate_many call pass all three checks
ValidCall == gm.kind \in Kinds /\ gm.count >= 1 /\ ~Gt(gm.min, gm.max)

\* generate_many has returned its list
Returned == gm.caller # "none" /\ pc \notin {"gm_body", "raised"} /\ err = ""

\* the numbers of the line just written
Shown == {out.vals[i] : i \in Indices(out.vals)}

\* C1: a generate_many call with kind "int" or "float", count >= 1 and
\* min <= max raises nothing and returns a list of exactly count elements,
\* all ints for "int" and all floats for "float".
Claim_C1_LengthAndKind ==
    (gm.caller # "none" /\ ValidCall) =>
        /\ err = ""
        /\ pc # "raised"
        /\ pc # "gm_body" =>
            /\ Len(results) = gm.count
            /\ \A i \in Indices(results) : results[i].type = gm.kind

\* C2: generate_many checks count, then the range, then the kind, and the
\* first failing check gives the message: count <= 0 gives the count message
\* whatever the bounds and the kind are, otherwise min > max gives the range
\* message whatever the kind is, otherwise an unknown kind gives the kind
\* message.
Thm_C2_ValidationOrder ==
    gm.caller # "none" =>
        /\ gm.count <= 0 => (pc # "gm_body" /\ err = MsgCount)
        /\ (gm.count > 0 /\ Gt(gm.min, gm.max)) => (pc # "gm_body" /\ err = MsgRange)
        /\ (gm.count > 0 /\ ~Gt(gm.min, gm.max) /\ gm.kind \notin Kinds
            /\ pc # "gm_body") => err = MsgKind

Wit_C2 ==
    /\ pc = "raised" /\ err = MsgCount
    /\ gm.count <= 0 /\ Gt(gm.min, gm.max) /\ gm.kind \notin Kinds

\* C3: when generate_many fails with one of its three messages, no call of
\* random_int or random_float has been made, the result list is empty and
\* nothing has been printed or returned.
Thm_C3_NoEntropyOnFailure ==
    err \in InvalidArgument =>
        /\ calls = <<>>
        /\ results = <<>>
        /\ printed = 0
        /\ out = NoLine
        /\ retval = NoValue

Wit_C3 ==
    /\ pc = "raised" /\ err = MsgKind /\ gm.count = MaxCount /\ calls = <<>>

\* C4 as stated: every number generated for a library or command-line caller
\* lies between the bounds as the caller gave them.
Orig_C4_WithinGivenBounds ==
    CalledByUser =>
        \A v \in {results[i] : i \in Indices(results)} \cup Shown :
            InRange(v, gm.min, gm.max)

\* C4 amended: for finite bounds min <= max, every number v generated for a
\* library or command-line caller satisfies: with kind "float",
\* float(min) <= v <= float(max) when the float difference of the converted
\* bounds is finite, and v is an infinity or a NaN when it overflows, where
\* float() leaves a float bound as it is and rounds an int bound to the
\* nearest float; with kind "int", v is an integer with
\* min - 1 < v < max + 1, and min <= v <= max when both bounds are whole
\* numbers.
Thm_C4_WithinCoercedBounds ==
    CalledByUser =>
        \A v \in {results[i] : i \in Indices(results)} \cup Shown :
            /\ gm.kind = "float" =>
                IF FSub(FloatCast(gm.max), FloatCast(gm.min)).cls = "fin"
                THEN InRange(v, FloatCast(gm.min), FloatCast(gm.max))
                ELSE v.type = "float" /\ v.cls \in {"inf", "nan"}
            /\ gm.kind = "int" =>
                /\ v.type = "int"
                /\ Quanta(gm.min) - Unit < Quanta(v)
                /\ Quanta(v) < Quanta(gm.max) + Unit
                /\ (IsWhole(gm.min) /\ IsWhole(gm.max)) =>
                        InRange(v, gm.min, gm.max)

Wit_C4 ==
    /\ op = "main" /\ pc = "print" /\ gm.kind = "int"
    /\ \E v \in Shown : Quanta(v) < Quanta(gm.min)

\* C5 as stated: random_float(min, max) with min <= max returns v with
\* min <= v < max when min < max, never max, and v = min when min = max.
Orig_C5_HalfOpen ==
    \A i \in Indices(calls) :
        (calls[i].fn = "random_float" /\ ~Gt(calls[i].lo, calls[i].hi)) =>
            /\ InRange(calls[i].ret, calls[i].lo, calls[i].hi)
            /\ Gt(calls[i].hi, calls[i].lo) => Gt(calls[i].hi, calls[i].ret)

\* C5 amended: random_float(min, max) with finite floats min <= max returns
\* the float arithmetic value of min + (max - min) * u for a draw u of
\* [0.0, 1.0).  When the float difference max - min is finite,
\* min <= v <= max, where max itself can be returned through rounding,
\* v = min when min = max, and v = min when u = 0; when the difference
\* overflows, v is an infinity or a NaN.
Thm_C5_ClosedByRounding ==
    \A i \in Indices(calls) :
        (calls[i].fn = "random_float" /\ ~Gt(calls[i].lo, calls[i].hi)) =>
            /\ InRange(Random(calls[i].raw), Fin(0), Fin(Unit - 1))
            /\ IF FSub(calls[i].hi, calls[i].lo).cls = "fin"
               THEN /\ InRange(calls[i].ret, calls[i].lo, calls[i].hi)
                    /\ calls[i].lo = calls[i].hi => calls[i].ret = calls[i].lo
                    /\ calls[i].raw = 0 => calls[i].ret = calls[i].lo
               ELSE calls[i].ret.cls \in {"inf", "nan"}

Wit_C5 ==
    /\ op = "random_float" /\ pc = "done"
    /\ Gt(calls[1].hi, calls[1].lo)
    /\ retval = calls[1].hi

\* C6: random_int(min, max) with integers min <= max returns an integer v
\* with min <= v <= max, min when min = max, and every integer of min..max
\* is a possible outcome of the call.
Thm_C6_ClosedIntRange ==
    /\ \A i \in Indices(calls) :
        (calls[i].fn = "random_int" /\ ~Gt(calls[i].lo, calls[i].hi)) =>
            /\ calls[i].ret.type = "int"
            /\ InRange(calls[i].ret, calls[i].lo, calls[i].hi)
    /\ pc = "idle" =>
        \A a, b \in IntArgs :
            a <= b => \A v \in a .. b :
                ENABLED (CallRandomInt(a, b) /\ retval' = PyInt(v))

Wit_C6 ==
    /\ op = "random_int" /\ pc = "done"
    /\ Gt(calls[1].hi, calls[1].lo)
    /\ retval = calls[1].hi

\* the arguments of a command-line run fail a check of generate_many or name
\* no kind
InvalidFlags == argv.count <= 0 \/ Gt(argv.min, argv.max) \/ argv.kind \notin Kinds

\* the messages of the checks the flags violate
ViolatedMessages ==
    (IF argv.count <= 0 THEN {MsgCount} ELSE {})
        \cup (IF Gt(argv.min, argv.max) THEN {MsgRange} ELSE {})
        \cup (IF argv.kind \notin Kinds THEN {MsgKind} ELSE {})

\* C7 as stated: a command-line run without --examples and with invalid
\* arguments ends with a non-zero exit status, reports the message of a
\* violated check and prints no number.
Orig_C7_CliReportsCheckMessage ==
    (op = "main" /\ ~argv.examples /\ InvalidFlags) =>
        /\ printed = 0
        /\ pc = "done" => (exitcode # 0 /\ stderr \in ViolatedMessages)

\* C7 amended: a command-line run without --examples and with invalid
\* arguments prints no number and ends with a non-zero exit status; an
\* unrecognized kind is rejected by the argument parser, before count and
\* range are looked at, with the parser's invalid-choice message and exit
\* status 2 and without a call of generate_many; with a recognized kind,
\* count <= 0 is reported with the count message, otherwise min > max with
\* the range message, both with exit status 1.
Thm_C7_CliRejection ==
    (op = "main" /\ ~argv.examples /\ InvalidFlags) =>
        /\ printed = 0
        /\ out = NoLine
        /\ calls = <<>>
        /\ pc = "done" =>
            /\ exitcode # 0
            /\ argv.kind \notin Kinds =>
                (exitcode = ExitUsage /\ stderr = MsgChoice /\ gm = NoFrame)
            /\ (argv.kind \in Kinds /\ argv.count <= 0) =>
                (exitcode = ExitUncaught /\ stderr = MsgCount)
            /\ (argv.kind \in Kinds /\ argv.count > 0) =>
                (exitcode = ExitUncaught /\ stderr = MsgRange)

Wit_C7 ==
    /\ op = "main" /\ pc = "done" /\ ~argv.examples
    /\ argv.kind \notin Kinds /\ argv.count <= 0
    /\ exitcode = ExitUsage

\* n numbers of the given type, each within lo..hi
Numbers(vals, n, type, lo, hi) ==
    /\ Len(vals) = n
    /\ \A i \in Indices(vals) : vals[i].type = type /\ InRange(vals[i], lo, hi)

\* the line just written is the line of _print_examples at its place: the
\* heading, then the four labelled blocks
ExampleLine ==
    CASE printed = 1 -> out = Line("Examples: \n", <<>>)
      [] printed = 2 -> /\ out.label = "Single int [1, 10]:"
                        /\ Numbers(out.vals, 1, "int", PyInt(1), PyInt(10))
      [] printed = 3 -> /\ out.label = "Single float [0.0, 1.0]:"
                        /\ Numbers(out.vals, 1, "float", Fin(0), Fin(Unit))
      [] printed = 4 -> /\ out.label = "Five ints [10, 20]:"
                        /\ Numbers(out.vals, 5, "int", PyInt(10), PyInt(20))
      [] printed = 5 -> /\ out.label = "Five floats [1.5, 2.5]:"
                        /\ Numbers(out.vals, 5, "float", Fin(3 * Half), Fin(5 * Half))
      [] OTHER -> FALSE

\* C8 as stated: a command-line run with --examples prints the four example
\* blocks and ends with exit status 0 whatever the other flags carry.
Orig_C8_ExamplesIgnoreFlags ==
    (op = "main" /\ argv.examples /\ pc = "done") =>
        (exitcode = 0 /\ printed = 5)

\* C8 amended: a command-line run with --examples whose other flags are
\* accepted by the argument parser (kind "int" or "float") prints the four
\* example blocks and ends with exit status 0 whatever count, min and max
\* are, also when count <= 0 or min > max, and never calls generate_many
\* with the flags; with an unrecognized kind the parser ends the run with
\* exit status 2 and nothing printed.
Thm_C8_ExamplesAfterParsing ==
    (op = "main" /\ argv.examples) =>
        /\ gm.caller # "main"
        /\ err = ""
        /\ out # NoLine => ExampleLine
        /\ pc = "done" =>
            IF argv.kind \in Kinds
            THEN exitcode = 0 /\ printed = 5
            ELSE exitcode = ExitUsage /\ printed = 0

Wit_C8 ==
    /\ op = "main" /\ pc = "done" /\ argv.examples
    /\ argv.count <= 0 /\ Gt(argv.min, argv.max)
    /\ exitcode = 0 /\ printed = 5

\* C9: a generate_many call that does not fail calls the single-value
\* generator of its kind once per element, count times in all, and the
\* i-th element of its list is what the i-th call returned; the command
\* line prints the list one number per line in that order.
Thm_C9_OneCallPerElement ==
    (gm.caller # "none" /\ err = "") =>
        /\ Len(calls) = Len(results)
        /\ Len(results) <= gm.count
        /\ Returned => Len(results) = gm.count
        /\ \A i \in Indices(results) :
            /\ results[i] = calls[i].ret
            /\ calls[i].fn =
                  (IF gm.kind = "int" THEN "random_int" ELSE "random_float")
        /\ gm.caller = "main" =>
            /\ printed <= Len(results)
            /\ out # NoLine => out = Line("", <<results[printed]>>)
            /\ pc = "done" => printed = gm.count

Wit_C9 ==
    /\ op = "main" /\ pc = "print"
    /\ printed = MaxCount /\ Len(calls) = MaxCount
    /\ out = Line("", <<calls[MaxCount].ret>>)
    /\ calls[1].ret # calls[MaxCount].ret

\* C10: with kind "int", a call that passes the range check reaches
\* random_int with the truncated bounds and trunc(min) <= trunc(max):
\* random_int is never called with an empty range, and every element of the
\* list lies in trunc(min)..trunc(max).
Thm_C10_TruncatedRange ==
    (gm.caller # "none" /\ gm.kind = "int" /\ gm.count > 0 /\ ~Gt(gm.min, gm.max)) =>
        /\ gm.imin = TruncatedValue(gm.min)
        /\ gm.imax = TruncatedValue(gm.max)
        /\ gm.imin <= gm.imax
        /\ err # MsgEmptyRange
        /\ \A i \in Indices(results) :
            /\ results[i].type = "int"
            /\ results[i].n \in gm.imin .. gm.imax
            /\ calls[i].lo = PyInt(gm.imin)
            /\ calls[i].hi = PyInt(gm.imax)

Wit_C10 ==
    /\ op = "generate_many" /\ pc = "done" /\ gm.kind = "int"
    /\ gm.min = Fin(-Half) /\ gm.max = Fin(Half)
    /\ Len(results) = gm.count

=============================================================================
